---- MODULE Spec2Model ----
(***************************************************************************)
(* Model of the conversational core of bb-weather-agent:                   *)
(*   WeatherCopilot (src/src/copilot.py), WeatherAgent (src/src/agent.py), *)
(*   SchemaManager (src/src/schema_manager.py) and the warehouse calls of  *)
(*   BigQueryHelper (src/src/utils/bigquery_helper.py).                    *)
(*                                                                         *)
(* Python strings that the code inspects character by character (the user  *)
(* input) are sequences of one-character strings.  Texts the code builds   *)
(* by concatenation (answers, error messages) are sequences of pieces, a   *)
(* literal of the source being one piece.                                  *)
(***************************************************************************)
EXTENDS Integers, Sequences, FiniteSets, TLC

\* ------------------------------------------------------------------ bounds
MaxHistory == 3      \* a turn starts only while its appends fit in this length
MaxRounds == 2       \* tool-call rounds explored inside one agent.invoke

\* ------------------------------------------------------- program constants
HistoryContentBudget == 200

\* --------------------------------------------------------- string helpers
UpperLetters ==
  <<"A","B","C","D","E","F","G","H","I","J","K","L","M",
    "N","O","P","Q","R","S","T","U","V","W","X","Y","Z">>

LowerLetters ==
  <<"a","b","c","d","e","f","g","h","i","j","k","l","m",
    "n","o","p","q","r","s","t","u","v","w","x","y","z">>

Whitespace == {" ", "\t", "\n"}

LowerChar(c) ==
  IF \E i \in 1..26 : UpperLetters[i] = c
    THEN LowerLetters[CHOOSE i \in 1..26 : UpperLetters[i] = c]
    ELSE c

\* str.lower()
Lower(s) == [i \in 1..Len(s) |-> LowerChar(s[i])]

\* str.strip(): drops the whitespace at both ends
Strip(s) ==
  LET keep == {i \in 1..Len(s) : s[i] \notin Whitespace}
  IN IF keep = {} THEN <<>>
     ELSE LET lo == CHOOSE i \in keep : \A j \in keep : i <= j
              hi == CHOOSE i \in keep : \A j \in keep : j <= i
          IN SubSeq(s, lo, hi)

\* str.startswith('/')
StartsWithSlash(s) == Len(s) >= 1 /\ s[1] = "/"

\* str.capitalize() of the two role names the code stores
Capitalize(role) == IF role = "user" THEN "User" ELSE "Assistant"

\* ------------------------------------------------------- the turns explored
Inputs ==
  { <<"/","h","e","l","p">>,
    <<"/","H","E","L","P"," ">>,
    <<" ","/","h","e","l","p">>,
    <<"/","s","c","h","e","m","a">>,
    <<"/","S","c","h","e","m","a">>,
    <<" ","/","S","C","H","E","M","A"," ">>,
    <<"/","h","i","s","t","o","r","y">>,
    <<"/","c","l","e","a","r">>,
    <<" ","/","c","l","e","a","r">>,
    <<"/","r","e","s","e","t">>,
    <<"/","s","t","a","t","u","s">>,
    <<"/","H","e","l","p"," ","m","e">>,
    <<"h","i">> }

Statements == {"SELECT 1", "SELECT x"}

\* what the warehouse can answer to a metadata fetch
MetadataFetches == {"raise", "loaded"}

Answers == { <<"It is sunny.">> }

\* ----------------------------------------------------- outcomes of a call
None == [kind |-> "none"]
Return(v) == [kind |-> "return", value |-> v]
Raise(e) == [kind |-> "raise", exc |-> e]

VARIABLES
  conversation_history,  \* WeatherCopilot.conversation_history
  schema_cache,          \* SchemaManager._schema_cache
  table_info_cache,      \* SchemaManager._table_info_cache
  pc,                    \* "idle", or "awaiting_model" inside agent.invoke
  question,              \* user_input of the turn in progress / last turn
  rounds,                \* tool-call rounds of the current agent.invoke
  tool_calls,            \* ToolCall records of the current / last agent.invoke
  result,                \* outcome of the last process_query call
  handler_outcome,       \* outcome of _handle_command in the last turn
  history_before,        \* conversation_history when the last turn started
  agent_queries,         \* calls of WeatherAgent.query during the last turn
  last_op,               \* "none", "process_query" or "reset"
  after_failure,         \* the turn before this one ended in a completion-service failure
  fetched,               \* warehouse metadata fetches issued by the last turn
  entry_point,           \* the entry point that started the process
  config_valid,          \* what Config.validate() returns in this environment
  app_pc,                \* position of the entry point / of ChatInterface.start
  reported,              \* what the front end showed last
  messages               \* st.session_state.messages of the streamlit page

copilot_vars == <<conversation_history, schema_cache, table_info_cache, pc,
                  question, rounds, tool_calls, result, handler_outcome,
                  history_before, agent_queries, last_op, after_failure,
                  fetched>>

app_vars == <<entry_point, config_valid, app_pc, reported, messages>>

vars == <<conversation_history, schema_cache, table_info_cache, pc, question,
          rounds, tool_calls, result, handler_outcome, history_before,
          agent_queries, last_op, after_failure, fetched,
          entry_point, config_valid, app_pc, reported, messages>>

\* ------------------------------------------------------------------ Config
\* Config.get_full_table_name() with the defaults of config.py
get_full_table_name ==
  "cio-datahub-enterprise-pr-183a.ent_common_location.bq_weather_current"

OPENAI_MODEL == "gpt-5"

MAX_QUERY_RESULTS == 1000

\* ------------------------------------------------------------ WeatherAgent
\* self.agent.get_schema_info(include_samples=False): the method is declared
\* with no parameter besides self, so binding the keyword raises TypeError
\* before the body runs.
get_schema_info_include_samples ==
  Raise(<<"WeatherAgent.get_schema_info() got an unexpected keyword argument 'include_samples'">>)

\* self.agent.validate_connection(): the method is commented out in
\* WeatherAgent, so the attribute lookup raises AttributeError.
validate_connection ==
  Raise(<<"'WeatherAgent' object has no attribute 'validate_connection'">>)

\* ---------------------------------------------------------- WeatherCopilot
\* a user entry that holds the stripped input instead of the raw one
UserEntry_Stripped(user_input) == [role |-> "user", content |-> Strip(user_input)]

\* {'role': 'user', 'content': user_input}
UserEntry(user_input) == [role |-> "user", content |-> user_input]

AssistantEntry(answer) == [role |-> "assistant", content |-> answer]

\* a routing test that recognises only the commands of the help text
RoutesToCommand_KnownOnly(user_input) ==
  Strip(Lower(user_input)) \in
    { <<"/","h","e","l","p">>, <<"/","s","c","h","e","m","a">>,
      <<"/","h","i","s","t","o","r","y">>, <<"/","c","l","e","a","r">>,
      <<"/","s","t","a","t","u","s">> }

\* the test of process_query that routes a turn to _handle_command
RoutesToCommand(user_input) == StartsWithSlash(Lower(user_input))

_get_help_text == <<"Weather Agent - Available Commands: /help /schema /history /clear /status">>

\* a truncation that already cuts content of exactly the budget
HistoryContent_AtBudget(content) ==
  IF Len(content) >= HistoryContentBudget
    THEN SubSeq(content, 1, HistoryContentBudget) \o <<"...">>
    ELSE content

\* entry['content'][:200] + "..." if len(entry['content']) > 200 else entry['content']
HistoryContent(content) ==
  IF Len(content) > HistoryContentBudget
    THEN SubSeq(content, 1, HistoryContentBudget) \o <<"...">>
    ELSE content

RECURSIVE HistoryLines(_, _)
HistoryLines(hist, i) ==
  IF i > Len(hist) THEN <<>>
  ELSE <<ToString(i), ". ", Capitalize(hist[i].role), ": ">>
         \o HistoryContent(hist[i].content) \o <<"\n\n">>
         \o HistoryLines(hist, i + 1)

_format_history(hist) ==
  IF hist = <<>> THEN <<"No conversation history yet.">>
  ELSE <<"Conversation History:\n\n">> \o HistoryLines(hist, 1)

\* the f-string is evaluated left to right; its last field calls
\* validate_connection, whose exception leaves _get_status
_get_status(hist) ==
  LET connection == validate_connection
  IN IF connection.kind = "raise" THEN connection
     ELSE Return(<<"System Status: Database: ", get_full_table_name,
                   " LLM Model: ", OPENAI_MODEL,
                   " Conversation History: ", ToString(Len(hist)), " messages",
                   " Max Query Results: ", ToString(MAX_QUERY_RESULTS),
                   " Connection: ",
                   IF connection.value THEN "Valid" ELSE "Invalid">>)

CommandResponse(success, answer) ==
  [success |-> success, answer |-> answer, is_command |-> TRUE]

\* the /clear branch without its assignment
ClearHistory_Keep(hist) == hist

\* self.conversation_history = [] of the /clear branch
ClearHistory(hist) == <<>>

\* the answer of the else branch built from the normalised cmd
UnknownCommandAnswer_Normalised(command, cmd) ==
  <<"Unknown command: ">> \o cmd \o <<". Type /help for available commands.">>

\* f"Unknown command: {command}. Type /help for available commands."
UnknownCommandAnswer(command, cmd) ==
  <<"Unknown command: ">> \o command
    \o <<". Type /help for available commands.">>

\* _handle_command(command) on history hist: the outcome of the call and the
\* history it leaves
_handle_command(command, hist) ==
  LET cmd == Strip(Lower(command))
  IN CASE cmd = <<"/","h","e","l","p">> ->
            [outcome |-> Return(CommandResponse(TRUE, _get_help_text)),
             history |-> hist]
       [] cmd = <<"/","s","c","h","e","m","a">> ->
            LET info == get_schema_info_include_samples
            IN [outcome |-> IF info.kind = "raise" THEN info
                            ELSE Return(CommandResponse(TRUE, info.value)),
                history |-> hist]
       [] cmd = <<"/","h","i","s","t","o","r","y">> ->
            [outcome |-> Return(CommandResponse(TRUE, _format_history(hist))),
             history |-> hist]
       [] cmd = <<"/","c","l","e","a","r">> ->
            [outcome |-> Return(CommandResponse(TRUE,
                                  <<"Conversation history cleared.">>)),
             history |-> ClearHistory(hist)]
       [] cmd = <<"/","s","t","a","t","u","s">> ->
            LET status == _get_status(hist)
            IN [outcome |-> IF status.kind = "raise" THEN status
                            ELSE Return(CommandResponse(TRUE, status.value)),
                history |-> hist]
       [] OTHER ->
            [outcome |-> Return(CommandResponse(FALSE,
                                  UnknownCommandAnswer(command, cmd))),
             history |-> hist]

_synthesize_response(agent_result) ==
  [success |-> agent_result.success,
   answer |-> agent_result.answer,
   question |-> agent_result.question]

\* the response built by the except clause of process_query
ExceptResponse(e) ==
  [success |-> FALSE,
   answer |-> <<"I encountered an error processing your query: ">> \o e,
   error |-> e]

\* process_query without its except clause
TryExcept_Propagate(outcome) == outcome

\* try/except Exception around the body of process_query
TryExcept(outcome) ==
  IF outcome.kind = "raise" THEN Return(ExceptResponse(outcome.exc))
  ELSE outcome

\* process_query without the append of the assistant entry
RecordAssistant_Never(hist, agent_result) == hist

\* if result['success']: self.conversation_history.append(assistant entry)
RecordAssistant(hist, agent_result) ==
  IF agent_result.success THEN Append(hist, AssistantEntry(agent_result.answer))
  ELSE hist

\* the tail of process_query once agent.query has returned agent_result
FinishQuery(hist, agent_result) ==
  [outcome |-> TryExcept(Return(_synthesize_response(agent_result))),
   history |-> RecordAssistant(hist, agent_result)]

\* the results WeatherAgent.query returns
QuerySuccess(q, answer) ==
  [question |-> q, answer |-> answer, intermediate_steps |-> <<>>,
   success |-> TRUE]

\* the except clause of query with an answer that drops str(e)
QueryFailure_NoMessage(q, e) ==
  [question |-> q, answer |-> <<"Error processing query">>,
   success |-> FALSE, error |-> e]

QueryFailure(q, e) ==
  [question |-> q, answer |-> <<"Error processing query: ">> \o e,
   success |-> FALSE, error |-> e]

\* ----------------------------------------------------------- SchemaManager
\* get_schema(): fetches through BigQueryHelper.get_table_schema only while
\* the cache is None; the helper re-raises what the warehouse raises
\* get_schema without the test of the cache
get_schema_NoCache(cache, fetch) ==
  IF fetch = "raise"
    THEN [cache |-> cache, fetched |-> {"schema"},
          outcome |-> Raise(<<"404 table schema not available">>)]
    ELSE [cache |-> fetch, fetched |-> {"schema"}, outcome |-> Return(fetch)]

\* (fetch is what the warehouse would answer now: "raise" or the
\* table's metadata as loaded; fetched tells whether the warehouse was asked)
get_schema(cache, fetch) ==
  IF cache = "None"
    THEN IF fetch = "raise"
           THEN [cache |-> "None", fetched |-> {"schema"},
                 outcome |-> Raise(<<"404 table schema not available">>)]
           ELSE [cache |-> fetch, fetched |-> {"schema"},
                 outcome |-> Return(fetch)]
    ELSE [cache |-> cache, fetched |-> {}, outcome |-> Return(cache)]

\* get_table_info(): the same over _table_info_cache
get_table_info(cache, fetch) ==
  IF cache = "None"
    THEN IF fetch = "raise"
           THEN [cache |-> "None", fetched |-> {"table_info"},
                 outcome |-> Raise(<<"404 table info not available">>)]
           ELSE [cache |-> fetch, fetched |-> {"table_info"},
                 outcome |-> Return(fetch)]
    ELSE [cache |-> cache, fetched |-> {}, outcome |-> Return(cache)]

\* _enhance_question -> get_full_context(include_samples=False) ->
\* get_schema_description: get_schema(), then get_table_info(); no handler
\* on the way, so a raise leaves _enhance_question
_enhance_question(sc, tc, schema_fetch, info_fetch) ==
  LET s == get_schema(sc, schema_fetch)
  IN IF s.outcome.kind = "raise"
       THEN [schema_cache |-> s.cache, table_info_cache |-> tc,
             fetched |-> s.fetched, outcome |-> s.outcome]
       ELSE LET t == get_table_info(tc, info_fetch)
            IN [schema_cache |-> s.cache, table_info_cache |-> t.cache,
                fetched |-> s.fetched \cup t.fetched,
                outcome |-> IF t.outcome.kind = "raise" THEN t.outcome
                            ELSE Return(<<"enhanced question">>)]

\* ---------------------------------------------------------- BigQueryHelper
\* execute_query: returns the DataFrame, or logs and re-raises
execute_query(query, warehouse) ==
  IF warehouse = "rows" THEN Return(<<"DataFrame of ", query>>)
  ELSE Raise(<<"400 query failed: ", query>>)

\* tools=[execute_bigquery]: the tool set handed to create_agent
Tools == {"execute_bigquery"}

\* the tool execute_bigquery: df = execute_query(query); return df.to_string()
\* (no handler: what execute_query raises leaves the tool)
execute_bigquery(query, warehouse) ==
  LET df == execute_query(query, warehouse)
  IN IF df.kind = "raise" THEN df
     ELSE Return(<<"to_string of ">> \o df.value)

\* ------------------------------------------------------------------- state
CopilotInit ==
  /\ conversation_history = <<>>
  /\ schema_cache = "None"
  /\ table_info_cache = "None"
  /\ pc = "idle"
  /\ question = <<>>
  /\ rounds = 0
  /\ tool_calls = <<>>
  /\ result = None
  /\ handler_outcome = None
  /\ history_before = <<>>
  /\ agent_queries = 0
  /\ last_op = "none"
  /\ after_failure = FALSE
  /\ fetched = {}

\* the copilot used directly, with no front end around it
NoFrontEnd ==
  /\ entry_point = "none"
  /\ config_valid = TRUE
  /\ app_pc = "none"
  /\ reported = "none"
  /\ messages = <<>>

\* the last turn ended because the completion service raised
FailedByService ==
  /\ pc = "idle"
  /\ last_op = "process_query"
  /\ agent_queries = 1
  /\ result.kind = "return"
  /\ result.value.success = FALSE
  /\ result.value.answer = <<"Error processing query: ", "Connection error.">>

\* a turn is accepted while the two appends it can make fit
CanStartTurn ==
  /\ pc = "idle"
  /\ Len(conversation_history) + 2 <= MaxHistory

\* process_query(user_input) for an input routed to _handle_command
DoCommandTurn(user_input) ==
  /\ CanStartTurn
  /\ RoutesToCommand(user_input)
  /\ LET h1 == Append(conversation_history, UserEntry(user_input))
         hc == _handle_command(user_input, h1)
     IN /\ conversation_history' = hc.history
        /\ handler_outcome' = hc.outcome
        /\ result' = TryExcept(hc.outcome)
  /\ history_before' = conversation_history
  /\ question' = user_input
  /\ agent_queries' = 0
  /\ rounds' = 0
  /\ tool_calls' = <<>>
  /\ last_op' = "process_query"
  /\ after_failure' = FailedByService
  /\ fetched' = {}
  /\ UNCHANGED <<schema_cache, table_info_cache, pc>>

\* process_query(user_input) for any other input, up to the call of
\* agent.invoke: the user entry is appended, agent.query enhances the question
DoQueryTurn(user_input, schema_fetch, info_fetch) ==
  /\ CanStartTurn
  /\ ~RoutesToCommand(user_input)
  /\ LET h1 == Append(conversation_history, UserEntry(user_input))
         e == _enhance_question(schema_cache, table_info_cache,
                                schema_fetch, info_fetch)
     IN /\ schema_cache' = e.schema_cache
        /\ table_info_cache' = e.table_info_cache
        /\ fetched' = e.fetched
        /\ IF e.outcome.kind = "raise"
             THEN LET f == FinishQuery(h1, QueryFailure(user_input, e.outcome.exc))
                  IN /\ conversation_history' = f.history
                     /\ result' = f.outcome
                     /\ pc' = "idle"
             ELSE /\ conversation_history' = h1
                  /\ result' = None
                  /\ pc' = "awaiting_model"
  /\ history_before' = conversation_history
  /\ question' = user_input
  /\ handler_outcome' = None
  /\ agent_queries' = 1
  /\ rounds' = 0
  /\ tool_calls' = <<>>
  /\ last_op' = "process_query"
  /\ after_failure' = FailedByService

\* agent.invoke: the model requests execute_bigquery(query); the tool runs
\* against the warehouse.  A result goes back to the model; an exception of
\* the tool leaves agent.invoke and is caught by agent.query
DoModelRequestsTool(query, warehouse) ==
  /\ pc = "awaiting_model"
  /\ rounds < MaxRounds
  /\ LET out == execute_bigquery(query, warehouse)
         tool == CHOOSE t \in Tools : TRUE
     IN /\ tool_calls' = Append(tool_calls,
                           [name |-> tool, input |-> query,
                            warehouse |-> warehouse, outcome |-> out])
        /\ IF out.kind = "raise"
             THEN LET f == FinishQuery(conversation_history,
                                       QueryFailure(question, out.exc))
                  IN /\ conversation_history' = f.history
                     /\ result' = f.outcome
                     /\ pc' = "idle"
                     /\ rounds' = rounds
             ELSE /\ rounds' = rounds + 1
                  /\ UNCHANGED <<conversation_history, result, pc>>
  /\ UNCHANGED <<schema_cache, table_info_cache, question, handler_outcome,
                 history_before, agent_queries, last_op,
                 after_failure, fetched>>

\* agent.invoke returns with a final message; agent.query returns success
DoModelAnswers(answer) ==
  /\ pc = "awaiting_model"
  /\ LET f == FinishQuery(conversation_history, QuerySuccess(question, answer))
     IN /\ conversation_history' = f.history
        /\ result' = f.outcome
  /\ pc' = "idle"
  /\ UNCHANGED <<schema_cache, table_info_cache, question, rounds, tool_calls,
                 handler_outcome, history_before, agent_queries, last_op,
                 after_failure, fetched>>

\* the completion service raises inside agent.invoke
DoCompletionServiceFails ==
  /\ pc = "awaiting_model"
  /\ LET f == FinishQuery(conversation_history,
                          QueryFailure(question, <<"Connection error.">>))
     IN /\ conversation_history' = f.history
        /\ result' = f.outcome
  /\ pc' = "idle"
  /\ UNCHANGED <<schema_cache, table_info_cache, question, rounds, tool_calls,
                 handler_outcome, history_before, agent_queries, last_op,
                 after_failure, fetched>>

\* WeatherCopilot.reset()
DoReset ==
  /\ pc = "idle"
  /\ conversation_history' = <<>>
  /\ history_before' = conversation_history
  /\ last_op' = "reset"
  /\ UNCHANGED <<schema_cache, table_info_cache, pc, question, rounds,
                 tool_calls, result, handler_outcome, agent_queries,
                 after_failure, fetched>>

\* the operations of the copilot when it is driven directly
Init == CopilotInit /\ NoFrontEnd

CommandTurn(user_input) ==
  DoCommandTurn(user_input) /\ UNCHANGED app_vars

QueryTurn(user_input, schema_fetch, info_fetch) ==
  DoQueryTurn(user_input, schema_fetch, info_fetch) /\ UNCHANGED app_vars

ModelRequestsTool(query, warehouse) ==
  DoModelRequestsTool(query, warehouse) /\ UNCHANGED app_vars

ModelAnswers(answer) == DoModelAnswers(answer) /\ UNCHANGED app_vars

CompletionServiceFails == DoCompletionServiceFails /\ UNCHANGED app_vars

Reset == DoReset /\ UNCHANGED app_vars

Next ==
  \/ \E user_input \in Inputs : CommandTurn(user_input)
  \/ \E user_input \in Inputs, schema_fetch \in MetadataFetches,
        info_fetch \in MetadataFetches :
       QueryTurn(user_input, schema_fetch, info_fetch)
  \/ \E query \in Statements, warehouse \in {"rows", "raise"} :
       ModelRequestsTool(query, warehouse)
  \/ \E answer \in Answers : ModelAnswers(answer)
  \/ CompletionServiceFails
  \/ Reset

Spec == Init /\ [][Next]_vars

\* the last operation was a process_query call and it has returned
TurnDone == pc = "idle" /\ last_op = "process_query"

\* ------------------------------------------------------------------ claims
HelpCmd == <<"/","h","e","l","p">>
SchemaCmd == <<"/","s","c","h","e","m","a">>
HistoryCmd == <<"/","h","i","s","t","o","r","y">>
ClearCmd == <<"/","c","l","e","a","r">>
ResetCmd == <<"/","r","e","s","e","t">>
StatusCmd == <<"/","s","t","a","t","u","s">>

SupportedCommands == {HelpCmd, SchemaCmd, HistoryCmd, ClearCmd, StatusCmd}

\* the command word of an input, as the claims read it
CommandWord(user_input) == Strip(Lower(user_input))

Contains(text, piece) == \E i \in DOMAIN text : text[i] = piece

\* the last turn went through agent.query and came back with success
SuccessfulLLMTurn ==
  /\ TurnDone
  /\ agent_queries = 1
  /\ result.kind = "return"
  /\ result.value.success

\* C1: the response of process_query has the key is_command if and only if
\* the input begins with '/', also when the command's handler fails.
C1_IsCommandIffSlash ==
  TurnDone =>
    /\ result.kind = "return"
    /\ ("is_command" \in DOMAIN result.value) <=> StartsWithSlash(question)

\* C2: whatever the turn and its outcome, process_query returns (never
\* raises) a response that has both answer and success.
C2_AnswerAndSuccess ==
  TurnDone =>
    /\ result.kind = "return"
    /\ {"answer", "success"} \subseteq DOMAIN result.value

\* a turn whose handler raised inside process_query has returned
C2_Witness ==
  /\ TurnDone
  /\ handler_outcome.kind = "raise"
  /\ result.kind = "return"
  /\ "error" \in DOMAIN result.value

\* C3: a /clear turn immediately followed by a /history turn makes the
\* /history turn answer 'No conversation history yet.'.
C3_ClearThenHistory ==
  [][ ( /\ TurnDone
        /\ RoutesToCommand(question) /\ CommandWord(question) = ClearCmd
        /\ TurnDone'
        /\ question' = HistoryCmd )
      => ( /\ result'.kind = "return"
           /\ result'.value.answer = <<"No conversation history yet.">> ) ]_vars

\* what process_query returns for the canonical lowercase form of a command
\* in the session state hist
CanonicalResponse(user_input, hist) ==
  LET cmd == CommandWord(user_input)
  IN TryExcept(_handle_command(cmd, Append(hist, UserEntry(cmd))).outcome)

\* C4: an input that is a supported command up to letter case and leading or
\* trailing whitespace gets the response of the canonical lowercase command.
C4_CaseAndWhitespace ==
  (TurnDone /\ CommandWord(question) \in SupportedCommands) =>
    result = CanonicalResponse(question, history_before)

\* C5: a command turn other than clear leaves conversation_history as it was
\* before the call.
C5_CommandAppendsNothing ==
  (TurnDone /\ StartsWithSlash(question) /\ CommandWord(question) # ClearCmd) =>
    conversation_history = history_before

\* C6 as stated: a successful LLM turn makes exactly one append to
\* conversation_history.
C6_ExactlyOneAppend ==
  SuccessfulLLMTurn =>
    Len(conversation_history) = Len(history_before) + 1

\* C6 amended: a successful LLM turn makes exactly two appends, the user
\* entry with the raw input and then one assistant entry with the answer.
C6_UserThenAssistant ==
  SuccessfulLLMTurn =>
    conversation_history =
      history_before \o <<UserEntry(question), AssistantEntry(result.value.answer)>>

\* a successful LLM turn on a session that already had history, after a
\* tool call
C6_Witness ==
  /\ SuccessfulLLMTurn
  /\ history_before # <<>>
  /\ tool_calls # <<>>

\* C7: _handle_command never raises: for every input beginning with '/' it
\* returns a response with is_command = True.
C7_HandlerNeverRaises ==
  (TurnDone /\ handler_outcome # None) =>
    /\ handler_outcome.kind = "return"
    /\ handler_outcome.value.is_command = TRUE

\* C8: a /status turn returns is_command = True with an answer that holds
\* the full table identifier and the current history count, and makes no
\* call of WeatherAgent.query.
C8_Status ==
  (TurnDone /\ StartsWithSlash(question) /\ CommandWord(question) = StatusCmd) =>
    /\ result.kind = "return"
    /\ "is_command" \in DOMAIN result.value
    /\ result.value.is_command = TRUE
    /\ Contains(result.value.answer, get_full_table_name)
    /\ Contains(result.value.answer, ToString(Len(conversation_history)))
    /\ agent_queries = 0

\* C9 as stated: both the /clear and the /reset turn empty the history and
\* return success = True, is_command = True.
C9_ClearAndResetCommands ==
  (TurnDone /\ StartsWithSlash(question)
            /\ CommandWord(question) \in {ClearCmd, ResetCmd}) =>
    /\ conversation_history = <<>>
    /\ result.kind = "return"
    /\ result.value.success = TRUE
    /\ "is_command" \in DOMAIN result.value
    /\ result.value.is_command = TRUE

\* C9 amended: the /clear turn and the reset() method empty the history and
\* /clear returns the successful confirmation; /reset is no command of the
\* dispatcher: it is answered as an unknown command and empties nothing.
C9_ClearCommandAndResetMethod ==
  /\ (TurnDone /\ StartsWithSlash(question) /\ CommandWord(question) = ClearCmd) =>
       /\ conversation_history = <<>>
       /\ result = Return(CommandResponse(TRUE, <<"Conversation history cleared.">>))
  /\ (TurnDone /\ StartsWithSlash(question) /\ CommandWord(question) = ResetCmd) =>
       /\ conversation_history = Append(history_before, UserEntry(question))
       /\ result.kind = "return"
       /\ result.value.success = FALSE
       /\ result.value.is_command = TRUE
  /\ (pc = "idle" /\ last_op = "reset") => conversation_history = <<>>

\* a /clear turn on a session that had history
C9_Witness ==
  /\ TurnDone
  /\ CommandWord(question) = ClearCmd
  /\ history_before # <<>>
  /\ conversation_history = <<>>

\* a tool call of the last agent.invoke for which the warehouse raised
SqlAttemptFailed ==
  \E i \in DOMAIN tool_calls : tool_calls[i].warehouse = "raise"

\* C10: a failing SQL attempt does not by itself fail the turn: the tool
\* returns the failure as its text, and the turn ends with success = False
\* only when the completion service itself failed.
C10_SqlFailureIsToolResult ==
  (TurnDone /\ agent_queries = 1 /\ SqlAttemptFailed) =>
    /\ \A i \in DOMAIN tool_calls : tool_calls[i].outcome.kind = "return"
    /\ result.kind = "return"
    /\ (result.value.success = FALSE =>
          result.value.answer = QueryFailure(question, <<"Connection error.">>).answer)

\* C12: the tool set holds both validate_query and the execute tool, and an
\* execute call for a statement comes only after a validate_query call for
\* the same statement has returned.
C12_ValidateBeforeExecute ==
  tool_calls # <<>> =>
    /\ "validate_query" \in Tools
    /\ \A i \in DOMAIN tool_calls :
         tool_calls[i].name = "execute_bigquery" =>
           \E j \in 1..(i - 1) :
             /\ tool_calls[j].name = "validate_query"
             /\ tool_calls[j].input = tool_calls[i].input

\* C13: a completion-service failure fails the current turn only: that turn
\* returns success = False with an answer carrying the error message, and the
\* following turn on the same copilot is processed normally (an answered
\* question returns success = True, a command is dispatched and served).
C13_ServiceFailureFailsOneTurn ==
  /\ [] ( (FailedByService /\ CanStartTurn) =>
            /\ ENABLED (\E u \in Inputs : CommandTurn(u))
            /\ ENABLED (\E u \in Inputs, sf \in MetadataFetches,
                            inf \in MetadataFetches : QueryTurn(u, sf, inf)) )
  /\ [][ /\ CompletionServiceFails =>
              /\ pc' = "idle"
              /\ result'.kind = "return"
              /\ result'.value.success = FALSE
              /\ Contains(result'.value.answer, "Connection error.")
              /\ conversation_history' = conversation_history
         /\ (after_failure /\ \E a \in Answers : ModelAnswers(a)) =>
              /\ result'.kind = "return"
              /\ result'.value.success = TRUE
              /\ result'.value.answer \in Answers
         /\ (FailedByService /\ \E u \in Inputs : CommandTurn(u)) =>
              /\ after_failure'
              /\ pc' = "idle"
              /\ handler_outcome' # None
              /\ result'.kind = "return"
              /\ agent_queries' = 0 ]_vars

\* a question answered with success right after a turn that the completion
\* service failed
C13_Witness ==
  /\ SuccessfulLLMTurn
  /\ after_failure

\* a metadata fetch of the turn that starts with (sf, inf) raises
MetadataLoadFails(sf, inf) ==
  _enhance_question(schema_cache, table_info_cache, sf, inf).outcome.kind = "raise"

\* C14: a failure to load the schema description never fails a turn: the
\* question still reaches the agent loop.
C14_SchemaFailureReachesAgent ==
  [][ \A u \in Inputs, sf \in MetadataFetches, inf \in MetadataFetches :
        (QueryTurn(u, sf, inf) /\ MetadataLoadFails(sf, inf)) =>
          /\ pc' = "awaiting_model"
          /\ result' = None ]_vars

\* a step in which process_query starts a question (WeatherAgent.query runs
\* _enhance_question)
QuestionStarts ==
  /\ pc = "idle"
  /\ last_op' = "process_query"
  /\ agent_queries' = 1

\* the turn that just started ended at once with the error text e
EndedWith(e) ==
  /\ pc' = "idle"
  /\ result'.kind = "return"
  /\ result'.value.success = FALSE
  /\ result'.value.answer = <<"Error processing query: ">> \o e

\* C15: a schema cache, once loaded, is never replaced or reset, and no
\* further fetch is issued for it; while it is empty every call fetches, and
\* a failed fetch leaves it empty.
C15_CacheLoadedOnce ==
  [][ /\ schema_cache # "None" => schema_cache' = schema_cache
      /\ table_info_cache # "None" => table_info_cache' = table_info_cache
      /\ QuestionStarts =>
           /\ schema_cache # "None" => "schema" \notin fetched'
           /\ table_info_cache # "None" => "table_info" \notin fetched'
           /\ schema_cache = "None" => "schema" \in fetched'
           /\ (table_info_cache = "None" /\ schema_cache' # "None") =>
                "table_info" \in fetched'
           /\ EndedWith(<<"404 table schema not available">>) =>
                /\ "schema" \in fetched'
                /\ schema_cache' = "None"
           /\ EndedWith(<<"404 table info not available">>) =>
                /\ "table_info" \in fetched'
                /\ table_info_cache' = "None"
      /\ ~QuestionStarts => fetched' \subseteq fetched ]_vars

\* a question asked when both caches were loaded: nothing is fetched
C15_Witness ==
  /\ last_op = "process_query"
  /\ agent_queries = 1
  /\ schema_cache # "None"
  /\ table_info_cache # "None"
  /\ fetched = {}
  /\ history_before # <<>>

\* C16: a turn whose input begins with '/' never calls WeatherAgent.query.
C16_CommandsServedLocally ==
  (last_op = "process_query" /\ StartsWithSlash(question)) =>
    /\ agent_queries = 0
    /\ pc = "idle"
    /\ tool_calls = <<>>

\* an unknown command served on a session with history
C16_Witness ==
  /\ TurnDone
  /\ StartsWithSlash(question)
  /\ CommandWord(question) \notin SupportedCommands
  /\ history_before # <<>>
  /\ agent_queries = 0

\* the text typed occurs in the answer
ContainsTyped(answer, typed) ==
  \E i \in 1..Len(answer) :
    /\ i + Len(typed) - 1 <= Len(answer)
    /\ SubSeq(answer, i, i + Len(typed) - 1) = typed

\* the input is dispatched as a command and is none of the supported ones
UnknownCommandTurn ==
  /\ TurnDone
  /\ StartsWithSlash(question)
  /\ CommandWord(question) \notin SupportedCommands

\* C19: an unknown command (a supported one followed by extra text included)
\* returns success = False and is_command = True with an answer that names
\* the command as typed and points to /help, and the next turn is accepted.
C19_UnknownCommand ==
  UnknownCommandTurn =>
    /\ result.kind = "return"
    /\ result.value.success = FALSE
    /\ "is_command" \in DOMAIN result.value
    /\ result.value.is_command = TRUE
    /\ ContainsTyped(result.value.answer, question)
    /\ Contains(result.value.answer, ". Type /help for available commands.")
    /\ pc = "idle"
    /\ CanStartTurn =>
         \A u \in Inputs :
           ENABLED (CommandTurn(u)
                      \/ \E sf \in MetadataFetches, inf \in MetadataFetches :
                           QueryTurn(u, sf, inf))

\* a supported command followed by extra text, typed with a capital
C19_Witness ==
  /\ UnknownCommandTurn
  /\ question = <<"/","H","e","l","p"," ","m","e">>
  /\ result.value.success = FALSE

\* ------------------------------------------------ the history rendering
\* _format_history is a pure function of conversation_history; it is applied
\* here to histories whose contents straddle the 200-character budget.
MaxFormatHistory == 2

\* a content of n characters whose 200th and later characters differ from
\* the earlier ones, so that a cut in the wrong place shows
ContentOfLength(n) ==
  [i \in 1..n |-> IF i < HistoryContentBudget THEN "a"
                  ELSE IF i = HistoryContentBudget THEN "b" ELSE "c"]

ContentLengths ==
  {0, 1, HistoryContentBudget - 1, HistoryContentBudget,
   HistoryContentBudget + 1, HistoryContentBudget + 2}

FormatEntries ==
  [role : {"user", "assistant"},
   content : {ContentOfLength(n) : n \in ContentLengths}]

FormatHistories == UNION {[1..n -> FormatEntries] : n \in 0..MaxFormatHistory}

FormatInit ==
  /\ conversation_history \in FormatHistories
  /\ schema_cache = "None"
  /\ table_info_cache = "None"
  /\ pc = "idle"
  /\ question = <<>>
  /\ rounds = 0
  /\ tool_calls = <<>>
  /\ result = None
  /\ handler_outcome = None
  /\ history_before = <<>>
  /\ agent_queries = 0
  /\ last_op = "none"
  /\ after_failure = FALSE
  /\ fetched = {}
  /\ NoFrontEnd

\* one call of self._format_history()
FormatHistory ==
  /\ last_op = "none"
  /\ result' = Return(_format_history(conversation_history))
  /\ last_op' = "_format_history"
  /\ UNCHANGED <<conversation_history, schema_cache, table_info_cache, pc,
                 question, rounds, tool_calls, handler_outcome,
                 history_before, agent_queries, after_failure, fetched>>
  /\ UNCHANGED app_vars

FormatNext == FormatHistory

FormatSpec == FormatInit /\ [][FormatNext]_vars

\* the number of pieces a content occupies in the rendering
RenderedLen(content) ==
  IF Len(content) <= HistoryContentBudget THEN Len(content)
  ELSE HistoryContentBudget + 1

\* the position of the rendering after which the line of turn i begins
RECURSIVE LineStart(_, _)
LineStart(hist, i) ==
  IF i = 1 THEN 1
  ELSE LineStart(hist, i - 1) + 4 + RenderedLen(hist[i - 1].content) + 1

\* C17: _format_history lists every turn of conversation_history in
\* insertion order, numbered from 1, as 'Role: content'; a content longer
\* than 200 characters is rendered as its first 200 characters followed by
\* '...', a content of at most 200 characters (exactly 200 included) is
\* rendered unchanged, and an empty history renders as the no-history
\* message.
C17_HistoryRendering ==
  last_op = "_format_history" =>
    LET hist == conversation_history
        out  == result.value
    IN /\ result.kind = "return"
       /\ hist = <<>> => out = <<"No conversation history yet.">>
       /\ hist # <<>> =>
            /\ out[1] = "Conversation History:\n\n"
            /\ Len(out) = LineStart(hist, Len(hist) + 1)
            /\ \A i \in 1..Len(hist) :
                 LET at == LineStart(hist, i)
                     c  == hist[i].content
                 IN /\ out[at + 1] = ToString(i)
                    /\ out[at + 2] = ". "
                    /\ out[at + 3] = Capitalize(hist[i].role)
                    /\ out[at + 4] = ": "
                    /\ Len(c) <= HistoryContentBudget =>
                         /\ SubSeq(out, at + 5, at + 4 + Len(c)) = c
                         /\ out[at + 5 + Len(c)] = "\n\n"
                    /\ Len(c) > HistoryContentBudget =>
                         /\ SubSeq(out, at + 5, at + 4 + HistoryContentBudget)
                              = SubSeq(c, 1, HistoryContentBudget)
                         /\ out[at + 5 + HistoryContentBudget] = "..."
                         /\ out[at + 6 + HistoryContentBudget] = "\n\n"

\* a rendered history holding a turn of exactly 200 characters and a longer one
C17_Witness ==
  /\ last_op = "_format_history"
  /\ result.kind = "return"
  /\ Len(conversation_history) = 2
  /\ Len(conversation_history[1].content) = HistoryContentBudget
  /\ Len(conversation_history[2].content) = HistoryContentBudget + 1

\* --------------------------------------------------------- the front ends
\* chat_interface.main and streamlit_ui.main (run by main.py) around the
\* copilot.  app_pc is the position of the front end: "start" before main,
\* "refused" after a failed validation, "crashed" when an exception left
\* main, "prompt" waiting for input, "processing" inside process_query or
\* before the response is displayed, "ended" after the chat loop, "done" /
\* "script_error" at the end of a run of the streamlit script.
EntryPoints == {"chat_interface.main", "streamlit_ui.main"}

\* the messages the page is followed for
MaxMessages == 4

\* what the operator types at the console or submits in the page
ConsoleLines ==
  { <<"/","h","e","l","p">>,
    <<"h","i">>,
    <<"e","x","i","t">>,
    <<" ","/","Q","u","i","t"," ">>,
    <<>>,
    <<" ">> }

\* the list of the exit test in ChatInterface.start
ExitWords ==
  { <<"/","e","x","i","t">>, <<"/","q","u","i","t">>,
    <<"e","x","i","t">>, <<"q","u","i","t">> }

\* WeatherCopilot(): a new copilot with an empty history and empty caches
DoConstruct ==
  /\ conversation_history' = <<>>
  /\ schema_cache' = "None"
  /\ table_info_cache' = "None"
  /\ pc' = "idle"
  /\ question' = <<>>
  /\ rounds' = 0
  /\ tool_calls' = <<>>
  /\ result' = None
  /\ handler_outcome' = None
  /\ history_before' = <<>>
  /\ agent_queries' = 0
  /\ last_op' = "none"
  /\ after_failure' = FALSE
  /\ fetched' = {}

AppInit ==
  /\ CopilotInit
  /\ entry_point \in EntryPoints
  /\ config_valid \in BOOLEAN
  /\ app_pc = "start"
  /\ reported = "none"
  /\ messages = <<>>

\* chat_interface.main: setup_proxy, then Config.validate(); a False
\* validation prints and returns.  Otherwise ChatInterface() constructs the
\* copilot (WeatherAgent._initialize_agent re-raises what it catches, and
\* nothing in main catches it) and start() shows the welcome text.
ChatMain(construct) ==
  /\ entry_point = "chat_interface.main"
  /\ app_pc = "start"
  /\ IF ~config_valid
       THEN /\ app_pc' = "refused"
            /\ reported' = "validation_failed"
            /\ UNCHANGED copilot_vars
       ELSE IF construct = "raise"
         THEN /\ app_pc' = "crashed"
              /\ reported' = "traceback"
              /\ UNCHANGED copilot_vars
         ELSE /\ DoConstruct
              /\ app_pc' = "prompt"
              /\ reported' = "welcome"
  /\ UNCHANGED <<entry_point, config_valid, messages>>

\* streamlit_ui.main, lines 9-48: copilot = WeatherCopilot() is the first
\* statement; Config.validate() is not called on this path
StreamlitMain(construct) ==
  /\ entry_point = "streamlit_ui.main"
  /\ app_pc = "start"
  /\ IF construct = "raise"
       THEN /\ app_pc' = "crashed"
            /\ reported' = "traceback"
            /\ UNCHANGED copilot_vars
       ELSE /\ DoConstruct
            /\ app_pc' = "prompt"
            /\ reported' = "welcome"
  /\ UNCHANGED <<entry_point, config_valid, messages>>

\* where the loop of ChatInterface.start stands after the break of an
\* except clause, instead of going round again
AfterLoopException_Break == "ended"

\* where the loop of ChatInterface.start stands after its
\* 'except Exception' clause: the clause prints and the while goes round
AfterLoopException == "prompt"

\* one reading of the loop: _get_user_input strips the line; an empty
\* result goes round again, an exit word says goodbye and breaks, anything
\* else enters process_query
ChatReadLine(line, schema_fetch, info_fetch) ==
  /\ entry_point = "chat_interface.main"
  /\ app_pc = "prompt"
  /\ LET user_input == Strip(line)
     IN IF user_input = <<>>
          THEN /\ app_pc' = "prompt"
               /\ reported' = "empty_input"
               /\ UNCHANGED copilot_vars
          ELSE IF Lower(user_input) \in ExitWords
            THEN /\ app_pc' = "ended"
                 /\ reported' = "exit_input"
                 /\ UNCHANGED copilot_vars
            ELSE /\ \/ DoCommandTurn(user_input)
                    \/ DoQueryTurn(user_input, schema_fetch, info_fetch)
                 /\ app_pc' = "processing"
                 /\ reported' = "none"
  /\ UNCHANGED <<entry_point, config_valid, messages>>

\* console.input raises EOFError: _get_user_input returns "/exit", which the
\* loop treats as the exit word
ChatEndOfInput ==
  /\ entry_point = "chat_interface.main"
  /\ app_pc = "prompt"
  /\ Lower(<<"/","e","x","i","t">>) \in ExitWords
  /\ app_pc' = "ended"
  /\ reported' = "end_of_input"
  /\ UNCHANGED <<entry_point, config_valid, messages>>
  /\ UNCHANGED copilot_vars

\* KeyboardInterrupt at the prompt or while a turn is processed: it is no
\* Exception, so the handlers of the copilot and the agent let it through
\* and the loop's 'except KeyboardInterrupt' breaks
ChatKeyboardInterrupt ==
  /\ entry_point = "chat_interface.main"
  /\ app_pc \in {"prompt", "processing"}
  /\ app_pc' = "ended"
  /\ reported' = "keyboard_interrupt"
  /\ UNCHANGED <<entry_point, config_valid, messages>>
  /\ UNCHANGED copilot_vars

\* console.input raises something other than EOFError
ChatInputRaises ==
  /\ entry_point = "chat_interface.main"
  /\ app_pc = "prompt"
  /\ app_pc' = AfterLoopException
  /\ reported' = "exception"
  /\ UNCHANGED <<entry_point, config_valid, messages>>
  /\ UNCHANGED copilot_vars

\* _display_response(result) after process_query returned: it prints the
\* panel, or the console raises while rendering
ChatDisplay(display) ==
  /\ entry_point = "chat_interface.main"
  /\ app_pc = "processing"
  /\ pc = "idle"
  /\ IF display = "raise"
       THEN /\ app_pc' = AfterLoopException
            /\ reported' = "exception"
       ELSE /\ app_pc' = "prompt"
            /\ reported' = "response"
  /\ UNCHANGED <<entry_point, config_valid, messages>>
  /\ UNCHANGED copilot_vars

\* streamlit_ui.main, lines 51-61: a submitted, non-empty prompt is handed
\* to process_query as it is
StreamlitPrompt(prompt, schema_fetch, info_fetch) ==
  /\ entry_point = "streamlit_ui.main"
  /\ app_pc = "prompt"
  /\ prompt # <<>>
  /\ Len(messages) + 2 <= MaxMessages
  /\ messages' = Append(messages, [role |-> "user", content |-> prompt])
  /\ \/ DoCommandTurn(prompt)
     \/ DoQueryTurn(prompt, schema_fetch, info_fetch)
  /\ app_pc' = "processing"
  /\ reported' = "none"
  /\ UNCHANGED <<entry_point, config_valid>>

\* st.chat_input returned nothing: the run of the script ends
StreamlitNoPrompt ==
  /\ entry_point = "streamlit_ui.main"
  /\ app_pc = "prompt"
  /\ app_pc' = "done"
  /\ reported' = "none"
  /\ UNCHANGED <<entry_point, config_valid, messages>>
  /\ UNCHANGED copilot_vars

\* streamlit_ui.main, lines 64-85: the response is shown; answer is assigned
\* only in the success branch, so the final append raises UnboundLocalError
\* after a response with success False
StreamlitDisplay ==
  /\ entry_point = "streamlit_ui.main"
  /\ app_pc = "processing"
  /\ pc = "idle"
  /\ IF result.value.success
       THEN /\ messages' = Append(messages, [role |-> "assistant",
                                             content |-> result.value.answer])
            /\ app_pc' = "done"
            /\ reported' = "response"
       ELSE /\ messages' = messages
            /\ app_pc' = "script_error"
            /\ reported' = "UnboundLocalError"
  /\ UNCHANGED <<entry_point, config_valid>>
  /\ UNCHANGED copilot_vars

\* the page runs the script again on the next interaction
StreamlitRerun ==
  /\ entry_point = "streamlit_ui.main"
  /\ app_pc \in {"done", "script_error"}
  /\ app_pc' = "start"
  /\ reported' = "none"
  /\ UNCHANGED <<entry_point, config_valid, messages>>
  /\ UNCHANGED copilot_vars

\* the steps of agent.invoke while a front end waits in process_query
AppModelRequestsTool(query, warehouse) ==
  /\ app_pc = "processing"
  /\ DoModelRequestsTool(query, warehouse)
  /\ UNCHANGED app_vars

AppModelAnswers(answer) ==
  /\ app_pc = "processing"
  /\ DoModelAnswers(answer)
  /\ UNCHANGED app_vars

AppCompletionServiceFails ==
  /\ app_pc = "processing"
  /\ DoCompletionServiceFails
  /\ UNCHANGED app_vars

AppNext ==
  \/ \E construct \in {"ok", "raise"} : ChatMain(construct)
  \/ \E construct \in {"ok", "raise"} : StreamlitMain(construct)
  \/ \E line \in ConsoleLines, schema_fetch \in MetadataFetches,
        info_fetch \in MetadataFetches :
       ChatReadLine(line, schema_fetch, info_fetch)
  \/ ChatEndOfInput
  \/ ChatKeyboardInterrupt
  \/ ChatInputRaises
  \/ \E display \in {"ok", "raise"} : ChatDisplay(display)
  \/ \E prompt \in ConsoleLines, schema_fetch \in MetadataFetches,
        info_fetch \in MetadataFetches :
       StreamlitPrompt(prompt, schema_fetch, info_fetch)
  \/ StreamlitNoPrompt
  \/ StreamlitDisplay
  \/ StreamlitRerun
  \/ \E query \in Statements, warehouse \in {"rows", "raise"} :
       AppModelRequestsTool(query, warehouse)
  \/ \E answer \in Answers : AppModelAnswers(answer)
  \/ AppCompletionServiceFails

AppSpec == AppInit /\ [][AppNext]_vars

\* the entry point has constructed a copilot
CopilotConstructed ==
  app_pc \in {"prompt", "processing", "ended", "done", "script_error"}

\* C20: for every entry point, when Config.validate() would return False the
\* process constructs no copilot and accepts no turn.
C20_ConfigErrorsFatalAtStartup ==
  ~config_valid =>
    /\ ~CopilotConstructed
    /\ last_op # "process_query"

\* the reasons for which the loop of ChatInterface.start may end
LoopEndings == {"exit_input", "end_of_input", "keyboard_interrupt"}

ClearTurn == RoutesToCommand(question) /\ CommandWord(question) = ClearCmd

\* C21: process_query appends one user entry holding the raw input before
\* any routing; after the call the history is empty for a /clear turn, the
\* previous history followed by the user entry and the assistant entry with
\* the answer for a successful LLM turn, and the previous history followed
\* by the user entry alone in every other case (other commands, unknown
\* commands, handlers that raise, failed LLM turns); the entries already
\* there keep their content and order.
C21_HistoryAfterTurn ==
  LET user == [role |-> "user", content |-> question]
  IN /\ (last_op = "process_query" /\ pc = "awaiting_model") =>
          conversation_history = Append(history_before, user)
     /\ TurnDone =>
          /\ ClearTurn => conversation_history = <<>>
          /\ (~ClearTurn /\ SuccessfulLLMTurn) =>
               conversation_history =
                 history_before \o
                   <<user, [role |-> "assistant", content |-> result.value.answer]>>
          /\ (~ClearTurn /\ ~SuccessfulLLMTurn) =>
               conversation_history = Append(history_before, user)
          /\ (RoutesToCommand(question) /\ CommandWord(question) = HistoryCmd) =>
               /\ result.value.answer # <<"No conversation history yet.">>
               /\ Contains(result.value.answer, ToString(Len(history_before) + 1))

\* a command whose handler raised, on a session that already had history
\* from an input with whitespace: the raw inputs are the entries
C21_Witness ==
  /\ TurnDone
  /\ handler_outcome.kind = "raise"
  /\ Len(history_before) = 1
  /\ history_before[1].content # Strip(history_before[1].content)
  /\ Len(conversation_history) = 2

\* ------------------------------------------------ the page's message list
\* a run of the streamlit script that handled a submitted prompt has ended
PromptHandled ==
  /\ entry_point = "streamlit_ui.main"
  /\ app_pc \in {"done", "script_error"}
  /\ last_op = "process_query"

\* C22: for every submitted prompt the handler of streamlit_ui.main
\* completes and has appended the user message and then an assistant
\* message to st.session_state.messages, whether process_query returned
\* success True or False.
C22_BothMessagesAppended ==
  PromptHandled =>
    /\ app_pc = "done"
    /\ Len(messages) >= 2
    /\ messages[Len(messages) - 1] = [role |-> "user", content |-> question]
    /\ messages[Len(messages)].role = "assistant"

====
